---- MODULE Spec2Model ----
(***************************************************************************)
(* Mystic Lotus: the hand tracker (HandTracker), the application state     *)
(* (App), the configuration panel (UIOverlay) and the particle component   *)
(* (LotusParticles), modelled as state machines.                           *)
(*                                                                         *)
(* Five specifications share the variables:                                *)
(*   SpecTracker  the HandTracker component: asynchronous setup, the       *)
(*                inference loop, teardown;                                *)
(*   Spec         the render loop of LotusParticles under the signals;     *)
(*   SpecSignals  the render loop under the signal writes of one predict   *)
(*                call, applied together or one by one;                    *)
(*   SpecScene    the render loop under the signals, the configuration     *)
(*                edits and the swipes of App;                             *)
(*   SpecGeom     the geometry generation of LotusParticles as a function  *)
(*                of its props.                                            *)
(*                                                                         *)
(* Numbers: a float is modelled by an exact rational <<num, den>> with a   *)
(* power of two as denominator; the frame deltas are multiples of a        *)
(* quarter second, for which every float operation of the smoother is      *)
(* exact.                                                                  *)
(***************************************************************************)
EXTENDS Integers, Naturals, Sequences, FiniteSets, TLC

\* ------------------------------------------------------------------ bounds

\* Largest video timestamp (currentTime, in frames) the camera delivers.
MaxVideoTime == 2

\* Largest number of animation-frame requests the inference loop makes.
MaxTicks == 4

\* Largest number of render frames.
MaxFrames == 3

\* Largest number of swipe events.
MaxSwipes == 2

\* Largest number of slider moves in the configuration panel.
MaxEdits == 1

\* The particle targets drawn as a LotusParticles prop, besides the default:
\* every target up to MaxPetalCount, and the targets k * totalPetals - 1 and
\* k * totalPetals for k up to MaxPetalRows.
MaxPetalCount == 100

MaxPetalRows == 15

\* The values Math.random() takes are k / RandSteps, k in 0 .. RandSteps - 1.
RandSteps == 4

\* --------------------------------------------------------------- variables

VARIABLES
    \* HandTracker
    mounted,         \* the effect's closure variable
    pc,              \* where setupMediaPipe / startWebcam is suspended
    landmarker,      \* the HandLandmarker object: "none", "open", "closed"
    landmarkerRef,   \* landmarkerRef.current: "null" or "set"
    stream,          \* the camera MediaStream: "none", "live", "stopped"
    srcObject,       \* videoRef.current.srcObject is the stream
    videoRef,        \* videoRef.current is the video element (not null)
    readyState,      \* videoRef.current.readyState
    videoTime,       \* videoRef.current.currentTime
    lastVideoTime,   \* lastVideoTimeRef.current
    requestRef,      \* requestRef.current
    rafQueue,        \* the animation-frame callbacks scheduled, by id
    loading, error, handDetected,
    result,          \* what detectForVideo returned last
    detections,      \* the number of detectForVideo calls
    \* App
    isBlooming, isHandPresent, activeColor, config, swipeCount,
    editCount,       \* the number of slider moves so far
    pendingBloom,    \* between predict's two signal writes: what it will pass
                     \* to onBloomChange; << >> outside predict
    \* LotusParticles
    currentBloom, currentForm, rotationY, uniforms, buffers, generation,
    frames, elapsed, heldTime,
    handSeen,        \* a frame has read isBlooming or isHandPresent as true
    drawn            \* the four attribute arrays the last frame was drawn from

trackerVars == <<mounted, pc, landmarker, landmarkerRef, stream, srcObject,
                 videoRef, readyState, videoTime, lastVideoTime, requestRef,
                 rafQueue, loading, error, handDetected, result, detections>>

signalVars == <<isBlooming, isHandPresent>>

appVars == <<activeColor, config, swipeCount, editCount, pendingBloom>>

smootherVars == <<currentBloom, currentForm, rotationY, uniforms, frames,
                  elapsed, heldTime, handSeen, drawn>>

geomVars == <<buffers, generation>>

vars == <<trackerVars, signalVars, appVars, smootherVars, geomVars>>

\* ----------------------------------------------------- gesture classifier

\* The landmark indices predict reads: the wrist, the four PIP joints and the
\* four finger tips.
wristIdx == 0

fingers == <<8, 12, 16, 20>>

pips == <<6, 10, 14, 18>>

LandmarkIdx == {wristIdx} \cup {fingers[i] : i \in 1..4} \cup {pips[i] : i \in 1..4}

\* dist(p1, p2) squared. Math.sqrt is strictly increasing on these values, so
\* dTip > dPip is decided on the squares.
dist2(p1, p2) ==
    (p1[1] - p2[1]) * (p1[1] - p2[1])
  + (p1[2] - p2[2]) * (p1[2] - p2[2])
  + (p1[3] - p2[3]) * (p1[3] - p2[3])

\* The body of the loop over the four fingers: finger i (1 .. 4) is extended.
fingerExtended(landmarks, i) ==
    LET wrist == landmarks[wristIdx]
        dTip2 == dist2(wrist, landmarks[fingers[i]])
        dPip2 == dist2(wrist, landmarks[pips[i]])
    IN  dTip2 > dPip2

RECURSIVE extendedCountFrom(_, _)
extendedCountFrom(landmarks, i) ==
    IF i > 4 THEN 0
    ELSE (IF fingerExtended(landmarks, i) THEN 1 ELSE 0)
         + extendedCountFrom(landmarks, i + 1)

extendedCount(landmarks) == extendedCountFrom(landmarks, 1)

isHandOpenTwoFingers(landmarks) == extendedCount(landmarks) >= 2

isHandOpen(landmarks) == extendedCount(landmarks) >= 3

\* Synthetic hands: the wrist at the origin, every PIP joint at distance 2,
\* and each finger tip farther than ("ext"), nearer than ("curl") or exactly as
\* far as ("eq") its PIP joint.
Poses == {"ext", "curl", "eq"}

tipOf(pose) ==
    CASE pose = "ext"  -> <<0, 4, 1>>
      [] pose = "curl" -> <<1, 1, 0>>
      [] pose = "eq"   -> <<2, 0, 0>>

handOf(poses) ==
    [k \in LandmarkIdx |->
        IF k = wristIdx THEN <<0, 0, 0>>
        ELSE IF \E i \in 1..4 : pips[i] = k THEN <<0, 2, 0>>
        ELSE tipOf(poses[CHOOSE i \in 1..4 : fingers[i] = k])]

Hands == {handOf(poses) : poses \in [1..4 -> Poses]}

\* What detectForVideo returns with numHands = 1: result.landmarks holds no
\* hand or one hand.
Results == {<< >>} \cup {<<h>> : h \in Hands}

\* No hand, an open hand and a fist.
SampleResults ==
    {<< >>, <<handOf([i \in 1..4 |-> "ext"])>>, <<handOf([i \in 1..4 |-> "curl"])>>}

\* ------------------------------------------------------------ HandTracker

NoError == "null"

\* setError / setLoading of a failed setup; React drops a state update of an
\* unmounted component, and the error notice replaces the video element.
catchError(msg) ==
    /\ pc' = "failed"
    /\ error' = IF mounted THEN msg ELSE error
    /\ loading' = IF mounted THEN FALSE ELSE loading
    /\ videoRef' = IF mounted THEN FALSE ELSE videoRef

\* The branch of predict that runs after detectForVideo.
classifyKeepsBloom(r) ==
    /\ result' = r
    /\ IF Len(r) > 0
       THEN /\ handDetected' = TRUE
            /\ isHandPresent' = TRUE
            /\ isBlooming' = isHandOpen(r[1])
       ELSE /\ handDetected' = FALSE
            /\ isHandPresent' = FALSE
            /\ isBlooming' = isBlooming

classify(r) ==
    /\ result' = r
    /\ IF Len(r) > 0
       THEN /\ handDetected' = TRUE
            /\ isHandPresent' = TRUE
            /\ isBlooming' = isHandOpen(r[1])
       ELSE /\ handDetected' = FALSE
            /\ isHandPresent' = FALSE
            /\ isBlooming' = FALSE

\* The timestamp test of predict.
isNewFrameAlways == TRUE

isNewFrame == videoTime # lastVideoTime

\* predict, run with r as what detectForVideo would return; fired is the set
\* of the callback ids that this run consumes (none when called directly).
predict(r, fired) ==
    /\ IF landmarkerRef = "set" /\ videoRef /\ readyState >= 2 /\ isNewFrame
       THEN /\ lastVideoTime' = videoTime
            /\ detections' = detections + 1
            /\ classify(r)
       ELSE UNCHANGED <<lastVideoTime, detections, result, handDetected,
                        isHandPresent, isBlooming>>
    /\ requestRef' = requestRef + 1
    /\ rafQueue' = (rafQueue \ fired) \cup {requestRef + 1}

\* FilesetResolver.forVisionTasks resolves.
ForVisionTasksResolve ==
    /\ pc = "forVisionTasks"
    /\ pc' = IF mounted THEN "createFromOptions" ELSE "returned"
    /\ UNCHANGED <<mounted, landmarker, landmarkerRef, stream, srcObject,
                   videoRef, readyState, videoTime, lastVideoTime, requestRef,
                   rafQueue, loading, error, handDetected, result, detections>>
    /\ UNCHANGED <<signalVars, appVars, smootherVars, geomVars>>

\* FilesetResolver.forVisionTasks rejects.
ForVisionTasksReject ==
    /\ pc = "forVisionTasks"
    /\ catchError("Failed to load AI model")
    /\ UNCHANGED <<mounted, landmarker, landmarkerRef, stream, srcObject,
                   readyState, videoTime, lastVideoTime, requestRef,
                   rafQueue, handDetected, result, detections>>
    /\ UNCHANGED <<signalVars, appVars, smootherVars, geomVars>>

\* HandLandmarker.createFromOptions resolves: the landmarker exists; a mounted
\* component keeps it and calls startWebcam, which suspends in getUserMedia.
CreateFromOptionsResolve ==
    /\ pc = "createFromOptions"
    /\ landmarker' = "open"
    /\ IF mounted
       THEN landmarkerRef' = "set" /\ pc' = "getUserMedia"
       ELSE landmarkerRef' = landmarkerRef /\ pc' = "returned"
    /\ UNCHANGED <<mounted, stream, srcObject, videoRef, readyState, videoTime,
                   lastVideoTime, requestRef, rafQueue, loading, error,
                   handDetected, result, detections>>
    /\ UNCHANGED <<signalVars, appVars, smootherVars, geomVars>>

\* HandLandmarker.createFromOptions rejects.
CreateFromOptionsReject ==
    /\ pc = "createFromOptions"
    /\ catchError("Failed to load AI model")
    /\ UNCHANGED <<mounted, landmarker, landmarkerRef, stream, srcObject,
                   readyState, videoTime, lastVideoTime, requestRef,
                   rafQueue, handDetected, result, detections>>
    /\ UNCHANGED <<signalVars, appVars, smootherVars, geomVars>>

\* What startWebcam does with the stream getUserMedia resolved to.
attachStream ==
    IF videoRef /\ mounted
    THEN srcObject' = TRUE /\ pc' = "loadeddata"
    ELSE srcObject' = srcObject /\ pc' = "returned"

\* getUserMedia resolves: the camera is live.
GetUserMediaResolve ==
    /\ pc = "getUserMedia"
    /\ stream' = "live"
    /\ attachStream
    /\ UNCHANGED <<mounted, landmarker, landmarkerRef, videoRef, readyState,
                   videoTime, lastVideoTime, requestRef, rafQueue, loading,
                   error, handDetected, result, detections>>
    /\ UNCHANGED <<signalVars, appVars, smootherVars, geomVars>>

\* The catch block of startWebcam.
startWebcamCatchPredicts ==
    /\ catchError("Camera access denied")
    /\ requestRef' = requestRef + 1
    /\ rafQueue' = rafQueue \cup {requestRef + 1}

startWebcamCatch ==
    /\ catchError("Camera access denied")
    /\ UNCHANGED <<requestRef, rafQueue>>

\* getUserMedia rejects.
GetUserMediaReject ==
    /\ pc = "getUserMedia"
    /\ startWebcamCatch
    /\ UNCHANGED <<mounted, landmarker, landmarkerRef, stream, srcObject,
                   readyState, videoTime, lastVideoTime, handDetected, result,
                   detections>>
    /\ UNCHANGED <<signalVars, appVars, smootherVars, geomVars>>

\* The video element fires loadeddata: setLoading(false); predict(). A live
\* stream keeps loading into the element also after the component is gone.
LoadedData ==
    /\ pc = "loadeddata"
    /\ stream = "live"
    /\ srcObject
    /\ pc' = "predicting"
    /\ readyState' = 2
    /\ loading' = IF mounted THEN FALSE ELSE loading
    /\ \E r \in Results : predict(r, {})
    /\ UNCHANGED <<mounted, landmarker, landmarkerRef, stream, srcObject,
                   videoRef, videoTime, error>>
    /\ UNCHANGED <<appVars, smootherVars, geomVars>>

\* An animation frame: the scheduled predict runs.
AnimationFrame ==
    /\ requestRef < MaxTicks
    /\ \E id \in rafQueue :
         \E r \in Results : predict(r, {id})
    /\ UNCHANGED <<mounted, pc, landmarker, landmarkerRef, stream, srcObject,
                   videoRef, readyState, videoTime, loading, error>>
    /\ UNCHANGED <<appVars, smootherVars, geomVars>>

\* The camera delivers the next video frame.
VideoFrame ==
    /\ stream = "live"
    /\ srcObject
    /\ videoTime < MaxVideoTime
    /\ videoTime' = videoTime + 1
    /\ UNCHANGED <<mounted, pc, landmarker, landmarkerRef, stream, srcObject,
                   videoRef, readyState, lastVideoTime, requestRef, rafQueue,
                   loading, error, handDetected, result, detections>>
    /\ UNCHANGED <<signalVars, appVars, smootherVars, geomVars>>

\* The effect's cleanup. React detaches videoRef either before the cleanup
\* runs (passive effects, React 17 and later) or after it (React 16): attached
\* is what the cleanup reads in videoRef.current.
cleanup(attached) ==
    /\ mounted' = FALSE
    /\ stream' = IF attached /\ srcObject THEN "stopped" ELSE stream
    /\ rafQueue' = rafQueue \ {requestRef}
    /\ landmarker' = IF landmarkerRef = "set" THEN "closed" ELSE landmarker
    /\ videoRef' = FALSE

Teardown ==
    /\ mounted
    /\ \E attached \in {b \in BOOLEAN : b => videoRef} : cleanup(attached)
    /\ UNCHANGED <<pc, landmarkerRef, srcObject, readyState, videoTime,
                   lastVideoTime, requestRef, loading, error, handDetected,
                   result, detections>>
    /\ UNCHANGED <<signalVars, appVars, smootherVars, geomVars>>


\* -------------------------------------------------------------- rationals

RECURSIVE gcd(_, _)
gcd(a, b) == IF b = 0 THEN a ELSE gcd(b, a % b)

abs(a) == IF a < 0 THEN 0 - a ELSE a

\* The rational n / d (d > 0) in lowest terms.
rat(n, d) ==
    LET g == gcd(abs(n), d)
    IN  IF n = 0 THEN <<0, 1>> ELSE <<n \div g, d \div g>>

radd(a, b) == rat(a[1] * b[2] + b[1] * a[2], a[2] * b[2])

rsub(a, b) == rat(a[1] * b[2] - b[1] * a[2], a[2] * b[2])

rmul(a, b) == rat(a[1] * b[1], a[2] * b[2])

rleq(a, b) == a[1] * b[2] <= b[1] * a[2]

rlt(a, b) == a[1] * b[2] < b[1] * a[2]

\* THREE.MathUtils.lerp(x, y, t) = (1 - t) * x + t * y
lerp(x, y, t) == radd(rmul(rsub(<<1, 1>>, t), x), rmul(t, y))

\* -------------------------------------------------------------------- App

\* config's initial value.
DefaultPetalCount == 80000

DefaultLayers == 4

DefaultConfig ==
    [petalCount     |-> DefaultPetalCount,
     layers         |-> DefaultLayers,
     particleSize   |-> rat(6, 100),
     rotationSpeed  |-> rat(1, 10),
     bloomIntensity |-> rat(15, 10)]

PALETTE == <<"#ffa6c9", "#0088ff", "#ffcc00", "#9900ff">>

\* Math.floor(Math.random() * n) for Math.random() = k / RandSteps.
randomIndex(k, n) == (k * n) \div RandSteps

\* PALETTE.filter(c => c !== prev)
availableUnfiltered(prev) == PALETTE

available(prev) == SelectSeq(PALETTE, LAMBDA c : c # prev)

\* The updater handleSwipe passes to setActiveColor; arrays count from 0 in
\* the source and from 1 here.
nextColor(prev, k) ==
    LET av == available(prev)
    IN  av[randomIndex(k, Len(av)) + 1]

\* ---------------------------------------------- LotusParticles: geometry

layersDef ==
    << [count |-> 5,  offset |-> rat(0, 10)],
       [count |-> 8,  offset |-> rat(5, 10)],
       [count |-> 12, offset |-> rat(0, 10)],
       [count |-> 18, offset |-> rat(3, 10)],
       [count |-> 24, offset |-> rat(1, 10)],
       [count |-> 32, offset |-> rat(4, 10)] >>

veins == 7

auraCount == 8000

\* layersDef.reduce((sum, l) => sum + l.count, 0)
RECURSIVE totalPetalsFrom(_)
totalPetalsFrom(i) ==
    IF i > Len(layersDef) THEN 0 ELSE layersDef[i].count + totalPetalsFrom(i + 1)

totalPetals == totalPetalsFrom(1)

particlesPerPetalCeil(totalParticles) ==
    (totalParticles + totalPetals - 1) \div totalPetals

particlesPerPetal(totalParticles) == totalParticles \div totalPetals

pointsPerVein(totalParticles) == particlesPerPetal(totalParticles) \div veins

\* Math.floor(Math.sqrt(n)) for n >= 0, searched between lo and hi.
RECURSIVE isqrtIn(_, _, _)
isqrtIn(n, lo, hi) ==
    IF lo >= hi THEN lo
    ELSE LET mid == (lo + hi + 1) \div 2
         IN  IF mid * mid <= n THEN isqrtIn(n, mid, hi) ELSE isqrtIn(n, lo, mid - 1)

isqrt(n) == isqrtIn(n, 0, 46340)

\* Math.pow(x, 1.5) for a rational x in [0, 1], in thousandths, rounded down.
pow15(x) == isqrt((1000000 * x[1] * x[1] * x[1]) \div (x[2] * x[2] * x[2]))

\* The values u and v take after Math.max(0, Math.min(1, .)).
UV == {rat(0, 2), rat(1, 2), rat(2, 2)}

\* calculatePetalShape(u, v, layerIndex, totalLayers, target): what it
\* returns, maxOpenAngle = 0.2 + pow(layerRatio, 1.5) * 1.5, in thousandths.
\* The coordinates it writes to target are not modelled.
calculatePetalShapeByU(u, v, layerIndex, totalLayers) ==
    200 + (pow15(u) * 3) \div 2

calculatePetalShape(u, v, layerIndex, totalLayers) ==
    LET layerRatio == rat(layerIndex, totalLayers)
    IN  200 + (pow15(layerRatio) * 3) \div 2

\* The lengths of tempPos, tempCol, tempInfo and tempRand, and of tempInfo the
\* content: one run per inner loop that pushed, with the loop indices, the
\* number of particles pushed and the values of their second info component
\* (maxOpenAngle, in thousandths).
EmptyTemp == [pos |-> 0, col |-> 0, info |-> 0, rand |-> 0, runs |-> << >>]

\* The values maxAngle = calculatePetalShape(u, v, layerIdx, layersDef.length,
\* vec) takes for the particles of each layer, evaluated once.
maxAngles ==
    [layerIdx \in 0 .. Len(layersDef) - 1 |->
        {calculatePetalShape(u, v, layerIdx, Len(layersDef)) : u \in UV, v \in UV}]

\* The particles of a vein: tempInfo.push(petalRotation, maxAngle, layerYOffset)
petalInfo(layerIdx, p, vIdx) ==
    [aura |-> FALSE, layer |-> layerIdx, petal |-> p, vein |-> vIdx,
     maxAngle |-> maxAngles[layerIdx]]

\* The aura particles: tempInfo.push(0, -1.0, 0)
auraInfoZero == [aura |-> TRUE, maxAngle |-> {0}]

auraInfo == [aura |-> TRUE, maxAngle |-> {-1000}]

\* n particles pushed: three numbers to each array per particle.
push(temp, n, info) ==
    [pos  |-> temp.pos + 3 * n,  col  |-> temp.col + 3 * n,
     info |-> temp.info + 3 * n, rand |-> temp.rand + 3 * n,
     runs |-> IF n > 0 THEN Append(temp.runs, [info |-> info, count |-> n])
              ELSE temp.runs]

\* The arrays after what a later part of the loops pushes is appended.
append(temp, more) ==
    [pos  |-> temp.pos + more.pos,   col  |-> temp.col + more.col,
     info |-> temp.info + more.info, rand |-> temp.rand + more.rand,
     runs |-> temp.runs \o more.runs]

\* The loops are run as ranges split in two halves, run one after the other;
\* a range of one index runs the loop body once.
half(lo, hi) == (lo + hi) \div 2

\* for (i < pointsPerVein) { push }: the particles of one vein.
veinBody(layerIdx, p, vIdx, ppv) ==
    push(EmptyTemp, ppv, petalInfo(layerIdx, p, vIdx))

\* for (vIdx = lo; vIdx < hi; vIdx++)
RECURSIVE veinLoop(_, _, _, _, _)
veinLoop(layerIdx, p, lo, hi, ppv) ==
    IF lo >= hi THEN EmptyTemp
    ELSE IF hi = lo + 1 THEN veinBody(layerIdx, p, lo, ppv)
    ELSE append(veinLoop(layerIdx, p, lo, half(lo, hi), ppv),
                veinLoop(layerIdx, p, half(lo, hi), hi, ppv))

\* The body of the loop over the petals of a layer.
petalBodyExtraVein(layerIdx, p, totalParticles) ==
    veinLoop(layerIdx, p, 0, veins + 1, pointsPerVein(totalParticles))

petalBody(layerIdx, p, totalParticles) ==
    veinLoop(layerIdx, p, 0, veins, pointsPerVein(totalParticles))

\* for (p = lo; p < hi; p++)
RECURSIVE petalLoop(_, _, _, _)
petalLoop(layerIdx, lo, hi, totalParticles) ==
    IF lo >= hi THEN EmptyTemp
    ELSE IF hi = lo + 1 THEN petalBody(layerIdx, lo, totalParticles)
    ELSE append(petalLoop(layerIdx, lo, half(lo, hi), totalParticles),
                petalLoop(layerIdx, half(lo, hi), hi, totalParticles))

\* The callback of layersDef.forEach.
layerBody(layerIdx, totalParticles) ==
    petalLoop(layerIdx, 0, layersDef[layerIdx + 1].count, totalParticles)

\* layersDef.forEach over the layers lo .. hi - 1.
RECURSIVE layerLoop(_, _, _)
layerLoop(lo, hi, totalParticles) ==
    IF lo >= hi THEN EmptyTemp
    ELSE IF hi = lo + 1 THEN layerBody(lo, totalParticles)
    ELSE append(layerLoop(lo, half(lo, hi), totalParticles),
                layerLoop(half(lo, hi), hi, totalParticles))

\* The body of useMemo: the petals, then the aura particles.
generate(totalParticles) ==
    push(layerLoop(0, Len(layersDef), totalParticles), auraCount, auraInfo)

\* The vertex shader's test of a particle's second info component, in
\* thousandths: bool isAura = aInfo.y < -0.5
isAura(maxOpenAngle) == maxOpenAngle < -500

\* What the body of useMemo yields for the default target, evaluated once.
defaultGeometry == generate(DefaultPetalCount)

\* What the body of useMemo yields for a target.
geometry(totalParticles) ==
    IF totalParticles = DefaultPetalCount
    THEN defaultGeometry ELSE generate(totalParticles)

\* The four Float32Arrays of generation run g.
buffersOfStaleColors(g, temp) ==
    [positions |-> [gen |-> g, length |-> temp.pos],
     colors    |-> [gen |-> g - 1, length |-> temp.col],
     infos     |-> [gen |-> g, length |-> temp.info],
     randoms   |-> [gen |-> g, length |-> temp.rand]]

buffersOf(g, temp) ==
    [positions |-> [gen |-> g, length |-> temp.pos],
     colors    |-> [gen |-> g, length |-> temp.col],
     infos     |-> [gen |-> g, length |-> temp.info],
     randoms   |-> [gen |-> g, length |-> temp.rand]]

\* useMemo(..., [config.petalCount, activeColor]) in the render that follows a
\* state update: the body runs again when a dependency changed.
useMemoOnConfig(newConfig, newColor) ==
    IF newConfig # config \/ newColor # activeColor
    THEN /\ generation' = generation + 1
         /\ buffers' = buffersOf(generation + 1, geometry(newConfig.petalCount))
    ELSE UNCHANGED <<buffers, generation>>

useMemo(newConfig, newColor) ==
    IF newConfig.petalCount # config.petalCount \/ newColor # activeColor
    THEN /\ generation' = generation + 1
         /\ buffers' = buffersOf(generation + 1, geometry(newConfig.petalCount))
    ELSE UNCHANGED <<buffers, generation>>

\* count={positions.length / 3}
particleCount == buffers.positions.length \div 3

\* ------------------------------------------- LotusParticles: the smoother

\* The frame deltas, in quarter seconds: 0 s, 0.25 s, 0.5 s, 1 s and 2 s.
Deltas == {0, 1, 2, 4, 8}

seconds(d) == rat(d, 4)

\* isBlooming ? 1.0 : 0.0 and isHandPresent ? 1.0 : 0.0
boolTargetOne(b) == <<1, 1>>

boolTarget(b) == IF b THEN <<1, 1>> ELSE <<0, 1>>

\* useFrame((state, delta) => ...)
useFrame(delta) ==
    /\ rotationY' = radd(rotationY, rmul(delta, config.rotationSpeed))
    /\ currentBloom' = lerp(currentBloom, boolTarget(isBlooming), rmul(delta, <<2, 1>>))
    /\ currentForm' = lerp(currentForm, boolTarget(isHandPresent), rmul(delta, <<3, 2>>))
    /\ elapsed' = radd(elapsed, delta)
    /\ uniforms' = [uTime           |-> elapsed',
                    uSize           |-> config.particleSize,
                    uBloomState     |-> currentBloom',
                    uFormState      |-> currentForm',
                    uBloomIntensity |-> config.bloomIntensity]

\* A render frame of d quarter seconds. heldTime is the time for which
\* isBlooming and isHandPresent have both been true at every frame; handSeen
\* records that some frame so far has read one of them as true.
Frame ==
    /\ frames < MaxFrames
    /\ pendingBloom = << >>
    /\ handSeen' = (handSeen \/ isBlooming \/ isHandPresent)
    /\ drawn' = buffers
    /\ \E d \in Deltas :
         /\ useFrame(seconds(d))
         /\ heldTime' = IF isBlooming /\ isHandPresent
                        THEN radd(heldTime, seconds(d)) ELSE <<0, 1>>
    /\ frames' = frames + 1
    /\ UNCHANGED <<trackerVars, signalVars, appVars, geomVars>>

\* The two callbacks predict invokes after a detection that returned r:
\* onPresenceChange = setHandPresent, then onBloomChange = setIsBlooming.
onSignalsKeepBloom(r) ==
    /\ isHandPresent' = (Len(r) > 0)
    /\ isBlooming' = IF Len(r) > 0 THEN isHandOpen(r[1]) ELSE isBlooming

onSignals(r) ==
    /\ isHandPresent' = (Len(r) > 0)
    /\ isBlooming' = IF Len(r) > 0 THEN isHandOpen(r[1]) ELSE FALSE

\* Both state updates of one predict call applied by one render (React batches
\* the two setState calls).
Signals ==
    /\ pendingBloom = << >>
    /\ \E r \in SampleResults : onSignals(r)
    /\ heldTime' = IF isBlooming' /\ isHandPresent' THEN heldTime ELSE <<0, 1>>
    /\ UNCHANGED <<trackerVars, appVars, geomVars, currentBloom, currentForm,
                   rotationY, uniforms, frames, elapsed, handSeen, drawn>>

\* The two state updates of one predict call applied one by one (React renders
\* after each setState call made outside its event handlers): the first,
\* onPresenceChange(...) = setHandPresent(...), with predict still running.
onPresenceChange(r) ==
    /\ isHandPresent' = (Len(r) > 0)
    /\ pendingBloom' = <<IF Len(r) > 0 THEN isHandOpen(r[1]) ELSE FALSE>>

PresenceWrite ==
    /\ pendingBloom = << >>
    /\ \E r \in SampleResults : onPresenceChange(r)
    /\ heldTime' = IF isBlooming /\ isHandPresent' THEN heldTime ELSE <<0, 1>>
    /\ UNCHANGED <<trackerVars, isBlooming, activeColor, config, swipeCount,
                   editCount, geomVars, currentBloom, currentForm, rotationY,
                   uniforms, frames, elapsed, handSeen, drawn>>

\* The second, onBloomChange(...) = setIsBlooming(...); predict then returns.
onBloomChange ==
    /\ isBlooming' = pendingBloom[1]
    /\ pendingBloom' = << >>

BloomWrite ==
    /\ pendingBloom # << >>
    /\ onBloomChange
    /\ heldTime' = IF isBlooming' /\ isHandPresent THEN heldTime ELSE <<0, 1>>
    /\ UNCHANGED <<trackerVars, isHandPresent, activeColor, config, swipeCount,
                   editCount, geomVars, currentBloom, currentForm, rotationY,
                   uniforms, frames, elapsed, handSeen, drawn>>

\* ---------------------------------------------------- App and UIOverlay

\* The values the three sliders of UIOverlay are moved to.
SliderValues ==
    [rotationSpeed  |-> {rat(0, 100), rat(100, 100)},
     bloomIntensity |-> {rat(0, 10), rat(50, 10)},
     particleSize   |-> {rat(10, 1000), rat(100, 1000)}]

\* handleChange(key, value): setConfig(prev => ({...prev, [key]: value}))
handleChange(key, value) ==
    /\ config' = [config EXCEPT ![key] = value]
    /\ useMemo(config', activeColor)

HandleChange ==
    /\ editCount < MaxEdits
    /\ editCount' = editCount + 1
    /\ \E key \in DOMAIN SliderValues :
         \E value \in SliderValues[key] : handleChange(key, value)
    /\ UNCHANGED <<trackerVars, signalVars, activeColor, swipeCount, pendingBloom,
                   smootherVars>>

\* handleSwipe: setActiveColor(prev => ...), then the render it causes.
handleSwipe(k) ==
    /\ activeColor' = nextColor(activeColor, k)
    /\ useMemo(config, activeColor')

HandleSwipe ==
    /\ swipeCount < MaxSwipes
    /\ swipeCount' = swipeCount + 1
    /\ \E k \in 0 .. RandSteps - 1 : handleSwipe(k)
    /\ UNCHANGED <<trackerVars, signalVars, config, editCount, pendingBloom,
                   smootherVars>>

\* --------------------------------------------------------- specifications

\* The state after the first render and the effects of mount: setupMediaPipe
\* is suspended in forVisionTasks, useMemo has run once.
InitTracker ==
    /\ mounted = TRUE
    /\ pc = "forVisionTasks"
    /\ landmarker = "none"
    /\ landmarkerRef = "null"
    /\ stream = "none"
    /\ srcObject = FALSE
    /\ videoRef = TRUE
    /\ readyState = 0
    /\ videoTime = 0
    /\ lastVideoTime = -1
    /\ requestRef = 0
    /\ rafQueue = {}
    /\ loading = TRUE
    /\ error = NoError
    /\ handDetected = FALSE
    /\ result = << >>
    /\ detections = 0

InitRender(petalCount) ==
    /\ isBlooming = FALSE
    /\ isHandPresent = FALSE
    /\ activeColor = PALETTE[1]
    /\ config = [DefaultConfig EXCEPT !.petalCount = petalCount]
    /\ swipeCount = 0
    /\ editCount = 0
    /\ pendingBloom = << >>
    /\ currentBloom = <<0, 1>>
    /\ currentForm = <<0, 1>>
    /\ rotationY = <<0, 1>>
    /\ uniforms = [uTime |-> <<0, 1>>, uSize |-> <<0, 1>>,
                   uBloomState |-> <<0, 1>>, uFormState |-> <<0, 1>>,
                   uBloomIntensity |-> <<1, 1>>]
    /\ generation = 1
    /\ buffers = buffersOf(1, geometry(petalCount))
    /\ frames = 0
    /\ elapsed = <<0, 1>>
    /\ heldTime = <<0, 1>>
    /\ handSeen = FALSE
    /\ drawn = buffersOf(0, EmptyTemp)

Init == InitTracker /\ InitRender(DefaultPetalCount)

\* The render loop under the signals App passes down.
Next ==
    \/ Frame
    \/ Signals

Spec == Init /\ [][Next]_vars

\* The HandTracker component.
NextTracker ==
    \/ ForVisionTasksResolve
    \/ ForVisionTasksReject
    \/ CreateFromOptionsResolve
    \/ CreateFromOptionsReject
    \/ GetUserMediaResolve
    \/ GetUserMediaReject
    \/ LoadedData
    \/ AnimationFrame
    \/ VideoFrame
    \/ Teardown

SpecTracker == Init /\ [][NextTracker]_vars

\* The geometry as a function of the props: any particle target.
PetalCounts ==
    (1 .. MaxPetalCount)
    \cup {k * totalPetals - 1 : k \in 1 .. MaxPetalRows}
    \cup {k * totalPetals : k \in 1 .. MaxPetalRows}
    \cup {DefaultPetalCount}

InitGeom == InitTracker /\ \E n \in PetalCounts : InitRender(n)

NextGeom ==
    \/ HandleSwipe

SpecGeom == InitGeom /\ [][NextGeom]_vars

\* The scene: the render loop under every change of the props of
\* LotusParticles (signals, configuration edits, swipes).
NextScene ==
    \/ Frame
    \/ Signals
    \/ HandleChange
    \/ HandleSwipe

SpecScene == Init /\ [][NextScene]_vars

\* The render loop under the signal writes of predict, applied by one render
\* or by one render each.
NextSignals ==
    \/ Frame
    \/ Signals
    \/ PresenceWrite
    \/ BloomWrite

SpecSignals == Init /\ [][NextSignals]_vars


\* ------------------------------------------------------------------ claims

inUnit(x) == rleq(<<0, 1>>, x) /\ rleq(x, <<1, 1>>)

\* C1: in every reachable state bloomAmount and formAmount are within [0, 1].
C1_WithinUnit == inUnit(currentBloom) /\ inUnit(currentForm)

\* C2, as stated: the number of particles generated is at most the configured
\* target, and not negative.
C2_AtMostTarget == particleCount >= 0 /\ particleCount <= config.petalCount

\* C2, amended: the number of petal particles, that is the particles
\* generated less the 8000 aura particles, is at most the configured target
\* and not negative.
C2_PetalsAtMostTarget ==
    /\ particleCount - 8000 >= 0
    /\ particleCount - 8000 <= config.petalCount

C2_Witness ==
    /\ config.petalCount = DefaultPetalCount
    /\ generation > 1
    /\ particleCount > config.petalCount

\* C3: the number of particles generated for target N is
\* (5 + 8 + 12 + 18 + 24 + 32) * 7 * floor(floor(N / 99) / 7) + 8000.
C3_Count ==
    LET ppv == (config.petalCount \div 99) \div 7
    IN  particleCount
          = 5 * 7 * ppv + 8 * 7 * ppv + 12 * 7 * ppv
            + 18 * 7 * ppv + 24 * 7 * ppv + 32 * 7 * ppv + 8000

C3_Witness ==
    /\ config.petalCount = 7 * 99
    /\ generation > 1
    /\ particleCount = 99 * 7 + 8000

\* The number of the four fingers of hand h whose tip is strictly farther from
\* the wrist (landmark 0) than its PIP joint.
tipsBeyondPips(h) ==
    LET sq(a, b) == (a[1] - b[1]) * (a[1] - b[1]) + (a[2] - b[2]) * (a[2] - b[2])
                    + (a[3] - b[3]) * (a[3] - b[3])
    IN  Cardinality({f \in {<<8, 6>>, <<12, 10>>, <<16, 14>>, <<20, 18>>} :
                        sq(h[0], h[f[1]]) > sq(h[0], h[f[2]])})

\* C4: after a detection that yields a hand, hand-open is true if and only if
\* at least 3 of the 4 fingers are extended.
C4_OpenIffThree ==
    (detections > 0 /\ Len(result) > 0)
        => /\ isHandPresent
           /\ isBlooming <=> (tipsBeyondPips(result[1]) >= 3)

C4_Witness ==
    /\ detections > 0
    /\ Len(result) > 0
    /\ tipsBeyondPips(result[1]) = 3
    /\ isBlooming

\* C5: once the setup has failed, hand-present and hand-open are false, no
\* predict has run or is scheduled, and a mounted component shows the error.
C5_Fallback ==
    pc = "failed"
        => /\ ~isHandPresent
           /\ ~isBlooming
           /\ rafQueue = {}
           /\ requestRef = 0
           /\ detections = 0
           /\ mounted => (error # NoError /\ ~loading)

C5_Witness ==
    /\ pc = "failed"
    /\ mounted
    /\ error = "Camera access denied"
    /\ landmarker = "open"

\* C6: after teardown no camera stream is live, no landmarker is open and no
\* frame callback is scheduled.
C6_Released ==
    ~mounted => (stream # "live" /\ landmarker # "open" /\ rafQueue = {})

\* C7: a swipe selects a color of the palette other than the active one.
C7_SwipeChangesColor ==
    [][swipeCount' # swipeCount
         => /\ activeColor' # activeColor
            /\ \E i \in 1 .. Len(PALETTE) : activeColor' = PALETTE[i]]_vars

C7_Witness ==
    /\ swipeCount = 2
    /\ activeColor = PALETTE[1]
    /\ generation = 3

\* C8: a detection that finds no hand sets hand-present and hand-open to false
\* and raises no error.
C8_NoHand ==
    [][(detections' # detections /\ Len(result') = 0)
         => /\ ~isHandPresent'
            /\ ~isBlooming'
            /\ error' = error
            /\ pc' # "failed"]_vars

C8_Witness ==
    /\ detections >= 2
    /\ Len(result) = 0
    /\ ~isHandPresent
    /\ ~isBlooming
    /\ error = NoError

\* C9: there is at most one detection per video timestamp, and a tick at the
\* timestamp of the last detection detects nothing, leaves the signals and the
\* recorded timestamp as they are, and schedules the next tick.
C9_OncePerTimestamp ==
    /\ [](detections <= videoTime + 1)
    /\ [][(requestRef' # requestRef /\ videoTime = lastVideoTime)
            => /\ detections' = detections
               /\ UNCHANGED <<isHandPresent, isBlooming, lastVideoTime, result>>
               /\ requestRef' \in rafQueue']_vars

C9_Witness ==
    /\ mounted
    /\ detections = 1
    /\ requestRef >= 2
    /\ lastVideoTime = videoTime
    /\ requestRef \in rafQueue

\* C10: once hand-present and hand-open have been true for frames that sum to
\* 2 seconds, bloomAmount and formAmount are above 0.9; stated for the runs in
\* which both signals are true from the first frame on, so that the amounts
\* start from 0.
C10_Converged ==
    (rleq(<<2, 1>>, heldTime) /\ elapsed = heldTime)
        => (rlt(<<9, 10>>, currentBloom) /\ rlt(<<9, 10>>, currentForm))

\* C11: as long as every render frame since startup has read hand-present and
\* hand-open as false, bloomAmount and formAmount are 0, whatever the frame
\* deltas and however long the frames have run.
C11_StaysZero ==
    ~handSeen
        => /\ currentBloom = <<0, 1>>
           /\ currentForm = <<0, 1>>
           /\ (frames > 0 => (uniforms.uBloomState = <<0, 1>>
                                /\ uniforms.uFormState = <<0, 1>>))

\* Three frames that sum to 5 seconds or more, none of which saw a hand.
C11_Witness ==
    /\ ~handSeen
    /\ frames = 3
    /\ rleq(<<5, 1>>, elapsed)
    /\ config = DefaultConfig
    /\ currentBloom = <<0, 1>>
    /\ currentForm = <<0, 1>>

\* C12: a step that changes neither the particle target nor the active color
\* (a render frame, a change of hand-present or hand-open, a move of the
\* rotation-speed, particle-size or bloom-intensity slider) leaves the four
\* particle buffers as they are: no generation run happens.
C12_RegenerationOnlyOnDeps ==
    [][(config'.petalCount = config.petalCount /\ activeColor' = activeColor)
         => (buffers' = buffers /\ generation' = generation)]_vars

\* Three frames, a hand seen and a slider moved since the one regeneration.
C12_Witness ==
    /\ generation = 2
    /\ swipeCount = 1
    /\ frames >= 3
    /\ editCount = 1
    /\ config # DefaultConfig
    /\ isHandPresent
    /\ isBlooming
    /\ buffers.randoms.gen = 2

\* What the generation run of the current buffers pushed to tempInfo.
currentRuns == geometry(config.petalCount).runs

\* The maxOpenAngle values, in thousandths, of the particles of layer i among
\* the runs.
layerAngles(runs, i) ==
    UNION {runs[k].info.maxAngle :
             k \in {n \in 1 .. Len(runs) :
                      ~runs[n].info.aura /\ runs[n].info.layer = i}}

\* C13: for every pair of layers i < j, every maxOpenAngle of a particle of
\* layer i is at most every maxOpenAngle of a particle of layer j, and within
\* a layer it is one value whatever u and v are.
C13_NonDecreasing ==
    LET runs == currentRuns
        angles == <<layerAngles(runs, 0), layerAngles(runs, 1), layerAngles(runs, 2),
                    layerAngles(runs, 3), layerAngles(runs, 4), layerAngles(runs, 5)>>
    IN  /\ Len(angles) = Len(layersDef)
        /\ \A i \in 1 .. Len(angles) : Cardinality(angles[i]) <= 1
        /\ \A i, j \in 1 .. Len(angles) :
              i < j => \A a \in angles[i], b \in angles[j] : a <= b

\* A regenerated default lotus: the innermost layer opens by 0.2, the
\* outermost by 1.34.
C13_Witness ==
    /\ config.petalCount = DefaultPetalCount
    /\ generation > 1
    /\ layerAngles(currentRuns, 0) = {200}
    /\ layerAngles(currentRuns, 5) = {1340}
    /\ buffers.infos.length = 3 * (99 * 7 * 115 + 8000)

\* The four arrays of b come from one generation run and hold the same number
\* of particles.
sameRun(b) ==
    /\ b.positions.gen = b.colors.gen
    /\ b.positions.gen = b.infos.gen
    /\ b.positions.gen = b.randoms.gen
    /\ b.positions.length = b.colors.length
    /\ b.positions.length = b.infos.length
    /\ b.positions.length = b.randoms.length

\* C14: the four arrays a frame is drawn from, and the four arrays bound
\* between frames, come from one generation run and hold the same number of
\* particles, also when swipes and slider moves fall between the frames.
C14_AtomicReplacement ==
    /\ sameRun(buffers)
    /\ frames > 0 => (sameRun(drawn) /\ drawn.positions.gen >= 1)

\* A frame drawn from the second generation, between two swipes.
C14_Witness ==
    /\ frames >= 2
    /\ generation = 3
    /\ drawn.positions.gen = 2
    /\ drawn.randoms.gen = 2
    /\ drawn.positions.length = 3 * (99 * 7 * 115 + 8000)
    /\ buffers.colors.gen = 3

\* The number of particles of the runs lo .. hi - 1.
RECURSIVE countIn(_, _, _)
countIn(runs, lo, hi) ==
    IF lo >= hi THEN 0
    ELSE IF hi = lo + 1 THEN runs[lo].count
    ELSE countIn(runs, lo, half(lo, hi)) + countIn(runs, half(lo, hi), hi)

\* C15: in the generated info buffer the aura particles are the last 8000
\* particles; a particle has a negative maxOpenAngle exactly if it is an aura
\* particle, and the shader's test maxOpenAngle < -0.5 says the same; every
\* petal particle has a positive maxOpenAngle and was pushed by exactly one
\* (layer, petal, vein) iteration; the runs account for every particle.
C15_AuraSentinel ==
    LET runs == currentRuns
        n == Len(runs)
        petalRuns == {k \in 1 .. n : ~runs[k].info.aura}
        triple(k) == <<runs[k].info.layer, runs[k].info.petal, runs[k].info.vein>>
    IN  /\ n >= 1
        /\ runs[n].info.aura
        /\ runs[n].count = 8000
        /\ petalRuns = 1 .. n - 1
        /\ \A k \in 1 .. n :
              /\ runs[k].info.maxAngle # {}
              /\ \A a \in runs[k].info.maxAngle :
                    /\ (a < 0) <=> runs[k].info.aura
                    /\ isAura(a) <=> runs[k].info.aura
                    /\ ~runs[k].info.aura => a > 0
        /\ Cardinality({triple(k) : k \in petalRuns}) = Cardinality(petalRuns)
        /\ \A k \in petalRuns :
              /\ runs[k].info.layer \in 0 .. Len(layersDef) - 1
              /\ runs[k].info.petal \in 0 .. layersDef[runs[k].info.layer + 1].count - 1
              /\ runs[k].info.vein \in 0 .. 6
        /\ 3 * countIn(runs, 1, n + 1) = buffers.infos.length

\* The default lotus after a swipe: 99 * 7 petal runs of 115 particles each,
\* then the aura run.
C15_Witness ==
    /\ config.petalCount = DefaultPetalCount
    /\ generation > 1
    /\ Len(currentRuns) = 99 * 7 + 1
    /\ currentRuns[1].count = 115
    /\ ~currentRuns[99 * 7].info.aura
    /\ currentRuns[99 * 7 + 1].info.aura
    /\ currentRuns[99 * 7 + 1].info.maxAngle = {-1000}
    /\ particleCount = 99 * 7 * 115 + 8000

\* C16, as stated: in every state, the states between the two signal writes
\* of one predict call included, hand-open implies hand-present.
C16_BloomImpliesPresent == isBlooming => isHandPresent

\* C16, amended: in every state in which a render frame can run, that is
\* outside predict, hand-open implies hand-present, and so every frame reads
\* signals for which it holds.
C16_BloomImpliesPresentAtFrames ==
    /\ [](pendingBloom = << >> => (isBlooming => isHandPresent))
    /\ [][frames' # frames => (isBlooming => isHandPresent)]_vars

\* A hand was open and seen by a frame and was then lost; the bloom amount is
\* on its way between 0 and 1 and no predict call is under way.
C16_Witness ==
    /\ pendingBloom = << >>
    /\ ~isHandPresent
    /\ ~isBlooming
    /\ handSeen
    /\ frames >= 2
    /\ rlt(<<0, 1>>, currentBloom)
    /\ rlt(currentBloom, <<1, 1>>)


====
